---- MODULE Spec2Model ----
(***************************************************************************)
(* A model of ol-data-pipelines:                                           *)
(*   - ol_data_pipelines/edx/api_client.py: get_access_token and the       *)
(*     generator get_edx_course_ids with its helpers;                      *)
(*   - ol_data_pipelines/mitx_bigquery/solids.py: download_user_data and   *)
(*     get_datasets.                                                       *)
(* The programs do not interact; each has its own specification            *)
(* (SpecFetch, SpecToken, SpecDownload, SpecDatasets) over the variables   *)
(* of its part.                                                            *)
(***************************************************************************)
EXTENDS Integers, Sequences, FiniteSets, TLC

VARIABLES
    \* ---- get_edx_course_ids (api_client.py:59-82) and its consumer
    edx_url,        \* argument edx_url
    access_token,   \* argument access_token
    pc,             \* where the generator stands
    callsite,       \* the line whose _fetch_with_auth call is running (75 or 80)
    username,       \* local of _fetch_with_auth (line 49)
    next_page,      \* local next_page (lines 77, 81)
    inflight,       \* the HTTP requests sent and not yet answered
    requests,       \* every HTTP request sent, in order
    answers,        \* the response to each request that was answered, in order
    pages,          \* every successful list response received, in order
    yielded,        \* every element handed to the consumer, in order
    asked,          \* the number of next() calls of the consumer
    error,          \* the failure that left the generator, if any
    \* ---- get_access_token (api_client.py:6-36) and its callers
    tpc,            \* where the running call stands
    targs,          \* the arguments of the running (or last) call
    posts,          \* every POST sent, in order
    calls,          \* the outcome of every finished call, in order
    tinflight,      \* the POSTs sent and not yet answered
    \* ---- download_user_data (solids.py:57-138), its inputs and its effects
    datasets,           \* argument datasets: the dataset ids, in order
    warehouse,          \* the tables of the warehouse, by table name
    last_modified_days, \* context.solid_config["last_modified_days"]
    outputs_dir,        \* context.solid_config["outputs_dir"]
    clock,              \* what datetime.utcnow() reads, in days
    dpc,                \* where the run stands
    modified_minimum,   \* local modified_minimum (lines 70-72)
    output_folder,      \* local output_folder (line 84)
    idx,                \* the position in datasets of the loop's dataset
    bigquery_table,     \* local bigquery_table (line 99)
    desired_schema,     \* local desired_schema (lines 103-105)
    rows,               \* local rows (line 108)
    arrow_table,        \* local arrow_table (line 111)
    files,              \* the files of the object store: path -> content
    events,             \* the events this run has yielded, in order
    lookups,            \* the table names this run has looked up, in order
    writes,             \* the paths this run has opened for output, in order
    exceptions,         \* the exceptions the calls of this run raised, in order
    failure,            \* the exception that ended this run, if any
    run,                \* the number of the run
    previous,           \* the files and events the previous run ended with
    \* ---- get_datasets (solids.py:152-163)
    listing,            \* the dataset ids list_datasets enumerates, in order
    spc,                \* where the call stands
    position,           \* the position in listing the filter reads next
    selected,           \* the ids the filter has let through, in order
    returned,           \* the list the call returned
    sfailure            \* the exception that left the call, if any

fetchVars == <<edx_url, access_token, pc, callsite, username, next_page,
               inflight, requests, answers, pages, yielded, asked, error>>
tokenVars == <<tpc, targs, posts, calls, tinflight>>
downloadVars == <<datasets, warehouse, last_modified_days, outputs_dir, clock,
                  dpc, modified_minimum, output_folder, idx, bigquery_table,
                  desired_schema, rows, arrow_table, files, events, lookups,
                  writes, exceptions, failure, run, previous>>
selectVars == <<listing, spc, position, selected, returned, sfailure>>
vars == <<fetchVars, tokenVars, downloadVars, selectVars>>

(***************************************************************************)
(* Bounds of the model.                                                    *)
(***************************************************************************)
\* The consumer of get_edx_course_ids calls next() at most MaxAsk times.
MaxAsk == 4
\* get_access_token is called at most MaxCalls times.
MaxCalls == 2

(***************************************************************************)
(* Values.                                                                 *)
(***************************************************************************)
\* Python's None; also stands for a key absent from a dict read with .get().
None == "None"
EdxUrls == {"https://lms.mitx.mit.edu"}
AccessTokens == {"tokA", "tokB"}
Usernames == {"alice", "bob"}
\* The "results" arrays a page can carry.
ResultLists == {<<>>, <<"course-v1:a">>}
\* pagination.next: absent/null, the empty string, or a cursor.
Cursors == {None, "", "X", "Y"}
\* HTTP status codes a server answers with: success, client error, server error.
StatusCodes == {200, 401, 500}

Last(seq) == seq[Len(seq)]

\* No failure has left the generator.
NoError == [status |-> 0, request |-> 0]

\* The test `next_page is not None`, for which an empty cursor goes on.
TruthyNoneOnly(v) == v # None
\* Python truthiness of a pagination.next value (the test of `while next_page`).
Truthy(v) == v # None /\ v # ""

\* httpx Response.raise_for_status: raises for a 4xx or 5xx status.
RaisesForStatus(status) == status >= 400 /\ status <= 599

(***************************************************************************)
(* The requests api_client.py builds.                                      *)
(***************************************************************************)
\* _get_username, lines 40-43
IdentityRequest(url, token) ==
    [method  |-> "GET",
     url     |-> url \o "/api/user/v1/me",
     headers |-> {<<"Authorization", "JWT " \o token>>},
     params  |-> {}]

\* The list request as it would be if the cursor of the previous page were
\* passed on as a query parameter.
ListRequestWithCursor(url, token, user, cursor) ==
    [method  |-> "GET",
     url     |-> url \o "/api/courses/v1/courses/",
     headers |-> {<<"Authorization", "JWT " \o token>>},
     params  |-> IF Truthy(cursor)
                 THEN {<<"username", user>>, <<"page", cursor>>}
                 ELSE {<<"username", user>>}]

\* _fetch_with_auth, lines 50-54; `cursor` is the generator's next_page, which
\* the code never passes down.
ListRequest(url, token, user, cursor) ==
    [method  |-> "GET",
     url     |-> url \o "/api/courses/v1/courses/",
     headers |-> {<<"Authorization", "JWT " \o token>>},
     params  |-> {<<"username", user>>}]

\* What the server answered: the status and, on success, the fields of the
\* JSON body the code reads.
IdentityAnswer(status, name) ==
    IF status = 200
    THEN [status |-> status, username |-> name, results |-> <<>>, next |-> None]
    ELSE [status |-> status, username |-> None, results |-> <<>>, next |-> None]
ListAnswer(status, results, next) ==
    IF status = 200
    THEN [status |-> status, username |-> None, results |-> results, next |-> next]
    ELSE [status |-> status, username |-> None, results |-> <<>>, next |-> None]

IsIdentity(req) == req.url = edx_url \o "/api/user/v1/me"
IsList(req) == req.url = edx_url \o "/api/courses/v1/courses/"

\* The positions of the requests of one kind in the log.
IdentityIdx == {k \in 1..Len(requests) : IsIdentity(requests[k])}
ListIdx == {k \in 1..Len(requests) : IsList(requests[k])}

(***************************************************************************)
(* get_edx_course_ids and its consumer.                                    *)
(***************************************************************************)
\* get_edx_course_ids is not part of the run.
FetchIdle ==
    /\ edx_url = None /\ access_token = None
    /\ pc = "idle" /\ callsite = 0 /\ username = None /\ next_page = None
    /\ inflight = {} /\ requests = <<>> /\ answers = <<>> /\ pages = <<>>
    /\ yielded = <<>>
    /\ asked = 0 /\ error = NoError

\* get_edx_course_ids(edx_url, access_token) returns a generator object; no
\* line of its body has run.
FetchInit ==
    /\ edx_url \in EdxUrls
    /\ access_token \in AccessTokens
    /\ pc = "created"
    /\ callsite = 0
    /\ username = None
    /\ next_page = None
    /\ inflight = {}
    /\ requests = <<>>
    /\ answers = <<>>
    /\ pages = <<>>
    /\ yielded = <<>>
    /\ asked = 0
    /\ error = NoError

Suspended == pc \in {"yield78", "yield82"}
Finished == pc \in {"done", "raised"}

\* next() on the fresh generator: the body starts and reaches line 75.
AskFirst ==
    /\ pc = "created"
    /\ asked < MaxAsk
    /\ asked' = asked + 1
    /\ callsite' = 75
    /\ pc' = "get_username"
    /\ UNCHANGED <<edx_url, access_token, username, next_page, inflight,
                   requests, answers, pages, yielded, error>>
    /\ UNCHANGED <<tokenVars, downloadVars, selectVars>>

\* AskMore as it would be if the generator kept the username of the first lookup.
AskMoreCachedUsername ==
    /\ Suspended
    /\ asked < MaxAsk
    /\ asked' = asked + 1
    /\ IF Truthy(next_page)
       THEN callsite' = 80 /\ pc' = "fetch"
       ELSE callsite' = callsite /\ pc' = "done"
    /\ UNCHANGED <<edx_url, access_token, username, next_page, inflight,
                   requests, answers, pages, yielded, error>>
    /\ UNCHANGED <<tokenVars, downloadVars, selectVars>>

\* AskMore as it would be if line 79 read `if next_page:`: one more page at most.
AskMoreOnce ==
    /\ Suspended
    /\ asked < MaxAsk
    /\ asked' = asked + 1
    /\ IF Truthy(next_page) /\ pc = "yield78"
       THEN callsite' = 80 /\ pc' = "get_username"
       ELSE callsite' = callsite /\ pc' = "done"
    /\ UNCHANGED <<edx_url, access_token, username, next_page, inflight,
                   requests, answers, pages, yielded, error>>
    /\ UNCHANGED <<tokenVars, downloadVars, selectVars>>

\* next() on the generator suspended at a yield (line 78 or 82): the loop test
\* of line 79 runs; the body calls _fetch_with_auth (line 80) or the function
\* returns (StopIteration).
AskMore ==
    /\ Suspended
    /\ asked < MaxAsk
    /\ asked' = asked + 1
    /\ IF Truthy(next_page)
       THEN callsite' = 80 /\ pc' = "get_username"
       ELSE callsite' = callsite /\ pc' = "done"
    /\ UNCHANGED <<edx_url, access_token, username, next_page, inflight,
                   requests, answers, pages, yielded, error>>
    /\ UNCHANGED <<tokenVars, downloadVars, selectVars>>

\* next() on a generator that returned or raised: StopIteration, nothing runs.
AskFinished ==
    /\ Finished
    /\ asked < MaxAsk
    /\ asked' = asked + 1
    /\ UNCHANGED <<edx_url, access_token, pc, callsite, username, next_page,
                   inflight, requests, answers, pages, yielded, error>>
    /\ UNCHANGED <<tokenVars, downloadVars, selectVars>>

\* _get_username, lines 40-43: httpx.get is called.
SendIdentity ==
    /\ pc = "get_username"
    /\ LET req == IdentityRequest(edx_url, access_token)
       IN /\ requests' = Append(requests, req)
          /\ inflight' = inflight \cup {Len(requests) + 1}
    /\ pc' = "wait_username"
    /\ UNCHANGED <<edx_url, access_token, callsite, username, next_page,
                   answers, pages, yielded, asked, error>>
    /\ UNCHANGED <<tokenVars, downloadVars, selectVars>>

\* RecvIdentity as it would be without the raise_for_status of line 44.
RecvIdentityUnchecked(status, name) ==
    /\ pc = "wait_username"
    /\ inflight' = {}
    /\ answers' = Append(answers, IdentityAnswer(status, name))
    /\ username' = name /\ pc' = "fetch" /\ error' = error
    /\ UNCHANGED <<edx_url, access_token, callsite, next_page, requests,
                   pages, yielded, asked>>
    /\ UNCHANGED <<tokenVars, downloadVars, selectVars>>

\* _get_username, lines 44-45, and line 49: the response arrives;
\* raise_for_status raises through _fetch_with_auth and the generator, or the
\* username of the body is bound.
RecvIdentity(status, name) ==
    /\ pc = "wait_username"
    /\ inflight' = {}
    /\ answers' = Append(answers, IdentityAnswer(status, name))
    /\ IF RaisesForStatus(status)
       THEN /\ pc' = "raised"
            /\ error' = [status |-> status, request |-> Len(requests)]
            /\ username' = username
       ELSE /\ username' = name
            /\ pc' = "fetch"
            /\ error' = error
    /\ UNCHANGED <<edx_url, access_token, callsite, next_page, requests,
                   pages, yielded, asked>>
    /\ UNCHANGED <<tokenVars, downloadVars, selectVars>>

\* _fetch_with_auth, lines 50-54: httpx.get is called.
SendList ==
    /\ pc = "fetch"
    /\ LET req == ListRequest(edx_url, access_token, username, next_page)
       IN /\ requests' = Append(requests, req)
          /\ inflight' = inflight \cup {Len(requests) + 1}
    /\ pc' = "wait_fetch"
    /\ UNCHANGED <<edx_url, access_token, callsite, username, next_page,
                   answers, pages, yielded, asked, error>>
    /\ UNCHANGED <<tokenVars, downloadVars, selectVars>>

\* RecvList as it would be if a failed list request were sent again.
RecvListRetry(status, results, next) ==
    /\ pc = "wait_fetch"
    /\ inflight' = {}
    /\ answers' = Append(answers, ListAnswer(status, results, next))
    /\ IF RaisesForStatus(status)
       THEN /\ pc' = "fetch"
            /\ UNCHANGED <<error, pages, next_page, yielded>>
       ELSE /\ pages' = Append(pages, [results |-> results, next |-> next])
            /\ next_page' = next
            /\ yielded' = Append(yielded, results)
            /\ pc' = IF callsite = 75 THEN "yield78" ELSE "yield82"
            /\ error' = error
    /\ UNCHANGED <<edx_url, access_token, callsite, username, requests, asked>>
    /\ UNCHANGED <<tokenVars, downloadVars, selectVars>>

\* RecvList as it would be if the generator fetched the next page ahead of the
\* consumer's request for it.
RecvListPrefetch(status, results, next) ==
    /\ pc = "wait_fetch"
    /\ inflight' = {}
    /\ answers' = Append(answers, ListAnswer(status, results, next))
    /\ IF RaisesForStatus(status)
       THEN /\ pc' = "raised"
            /\ error' = [status |-> status, request |-> Len(requests)]
            /\ UNCHANGED <<pages, next_page, yielded>>
       ELSE /\ pages' = Append(pages, [results |-> results, next |-> next])
            /\ next_page' = next
            /\ yielded' = Append(yielded, results)
            /\ pc' = IF Truthy(next) THEN "get_username"
                     ELSE IF callsite = 75 THEN "yield78" ELSE "yield82"
            /\ error' = error
    /\ UNCHANGED <<edx_url, access_token, callsite, username, requests, asked>>
    /\ UNCHANGED <<tokenVars, downloadVars, selectVars>>

\* _fetch_with_auth, lines 55-56, then lines 75-78 or 80-82: the response
\* arrives; raise_for_status raises through the generator, or the page's
\* cursor is kept in next_page and its results are yielded.
RecvList(status, results, next) ==
    /\ pc = "wait_fetch"
    /\ inflight' = {}
    /\ answers' = Append(answers, ListAnswer(status, results, next))
    /\ IF RaisesForStatus(status)
       THEN /\ pc' = "raised"
            /\ error' = [status |-> status, request |-> Len(requests)]
            /\ UNCHANGED <<pages, next_page, yielded>>
       ELSE /\ pages' = Append(pages, [results |-> results, next |-> next])
            /\ next_page' = next
            /\ yielded' = Append(yielded, results)
            /\ pc' = IF callsite = 75 THEN "yield78" ELSE "yield82"
            /\ error' = error
    /\ UNCHANGED <<edx_url, access_token, callsite, username, requests, asked>>
    /\ UNCHANGED <<tokenVars, downloadVars, selectVars>>

NextFetch ==
    \/ AskFirst
    \/ AskMore
    \/ AskFinished
    \/ SendIdentity
    \/ \E status \in StatusCodes, name \in Usernames : RecvIdentity(status, name)
    \/ SendList
    \/ \E status \in StatusCodes, results \in ResultLists, next \in Cursors :
          RecvList(status, results, next)

(***************************************************************************)
(* get_edx_course_ids against a server that answers identical requests     *)
(* with identical responses.                                               *)
(***************************************************************************)
\* The response to the request in flight (the last one sent) is the response
\* every earlier request equal to it was given.
Repeats(answer) ==
    \A k \in 1..Len(answers) : requests[k] = Last(requests) => answers[k] = answer

\* _get_username, lines 42-45, answered by such a server.
RecvIdentitySame(status, name) ==
    /\ pc = "wait_username"
    /\ Repeats(IdentityAnswer(status, name))
    /\ RecvIdentity(status, name)

\* _fetch_with_auth, lines 50-56, answered by such a server.
RecvListSame(status, results, next) ==
    /\ pc = "wait_fetch"
    /\ Repeats(ListAnswer(status, results, next))
    /\ RecvList(status, results, next)

NextFetchSame ==
    \/ AskFirst
    \/ AskMore
    \/ AskFinished
    \/ SendIdentity
    \/ \E status \in StatusCodes, name \in Usernames : RecvIdentitySame(status, name)
    \/ SendList
    \/ \E status \in StatusCodes, results \in ResultLists, next \in Cursors :
          RecvListSame(status, results, next)

(***************************************************************************)
(* get_access_token and its callers.                                       *)
(***************************************************************************)
ClientIds == {"id1", "id2"}
ClientSecrets == {"s1"}
TokenTypes == {"jwt", "bearer"}
\* The JSON bodies of the token endpoint's answers.
TokenBodies == [access_token : AccessTokens, token_type : TokenTypes]

\* get_access_token is not part of the run.
TokenIdle ==
    /\ tpc = "off" /\ targs = <<>> /\ posts = <<>> /\ calls = <<>>
    /\ tinflight = {}

\* No call of get_access_token has been made.
TokenInit ==
    /\ tpc = "ready" /\ targs = <<>> /\ posts = <<>> /\ calls = <<>>
    /\ tinflight = {}

\* lines 28-34: the payload and the POST.
TokenRequest(client_id, client_secret, url, token_type) ==
    [method |-> "POST",
     url    |-> url \o "/oauth2/access_token",
     data   |-> {<<"grant_type", "client_credentials">>,
                 <<"client_id", client_id>>,
                 <<"client_secret", client_secret>>,
                 <<"token_type", token_type>>}]

\* A caller calls get_access_token; lines 28-34 run and httpx.post is called.
CallToken(client_id, client_secret, url, token_type) ==
    /\ tpc = "ready"
    /\ Len(calls) < MaxCalls
    /\ targs' = <<client_id, client_secret, url, token_type>>
    /\ posts' = Append(posts, TokenRequest(client_id, client_secret, url, token_type))
    /\ tinflight' = tinflight \cup {Len(posts) + 1}
    /\ tpc' = "wait_post"
    /\ UNCHANGED calls
    /\ UNCHANGED <<fetchVars, downloadVars, selectVars>>

\* What the call returns for a response: line 36.
TokenResult(body) == body.access_token

\* RecvToken as it would be if a failed token request were sent again.
RecvTokenRetry(status, body) ==
    /\ tpc = "wait_post"
    /\ IF RaisesForStatus(status)
       THEN /\ posts' = Append(posts, posts[Len(posts)])
            /\ tinflight' = {Len(posts) + 1}
            /\ tpc' = "wait_post"
            /\ calls' = calls
       ELSE /\ calls' = Append(calls, [args |-> targs, post |-> Len(posts),
                                       status |-> status, body |-> body,
                                       raised |-> FALSE,
                                       returned |-> TokenResult(body)])
            /\ tinflight' = {}
            /\ tpc' = "ready"
            /\ posts' = posts
    /\ UNCHANGED targs
    /\ UNCHANGED <<fetchVars, downloadVars, selectVars>>

\* lines 35-36: the response arrives; raise_for_status raises, or the
\* access_token field of the JSON body is returned.
RecvToken(status, body) ==
    /\ tpc = "wait_post"
    /\ tinflight' = {}
    /\ tpc' = "ready"
    /\ calls' = Append(calls,
                  IF RaisesForStatus(status)
                  THEN [args |-> targs, post |-> Len(posts), status |-> status,
                        body |-> body, raised |-> TRUE, returned |-> None]
                  ELSE [args |-> targs, post |-> Len(posts), status |-> status,
                        body |-> body, raised |-> FALSE,
                        returned |-> TokenResult(body)])
    /\ UNCHANGED <<targs, posts>>
    /\ UNCHANGED <<fetchVars, downloadVars, selectVars>>

NextToken ==
    \/ \E client_id \in ClientIds, client_secret \in ClientSecrets,
          url \in EdxUrls, token_type \in TokenTypes :
          CallToken(client_id, client_secret, url, token_type)
    \/ \E status \in StatusCodes, body \in TokenBodies : RecvToken(status, body)

(***************************************************************************)
(* download_user_data: values.                                             *)
(***************************************************************************)
\* config_schema, line 35: the default of last_modified_days.
DefaultLastModifiedDays == 3600
\* The input list holds at most MaxDatasets datasets.
MaxDatasets == 3
\* The solid is run at most MaxRuns times on the same output root.
MaxRuns == 2
\* The clock reads StartClock (in days) at the first run.
StartClock == 2

\* context.resources.bigquery_db.project
Project == "mitx-data"
\* The dataset ids of a project are pairwise distinct; the code reads an id
\* only to build names from it, so the input lists are the prefixes of one list.
DatasetIds == <<"a_latest", "b_latest", "c_latest", "d_latest", "e_latest">>
DatasetLists == {SubSeq(DatasetIds, 1, n) : n \in 0..MaxDatasets}
LastModifiedDays == {1, DefaultLastModifiedDays}
OutputsDirs == {"s3://bucket/users"}

\* lines 74-82
fields == <<"user_id", "username", "email", "is_staff", "profile_name",
            "profile_meta", "enrollment_course_id">>
Range(seq) == {seq[k] : k \in 1..Len(seq)}

\* The tables a dataset can hold under the name user_info_combo: modified on
\* the day of the first run, the day before or two days before, with no rows
\* or two.
TableSchemas == {<<"user_id", "email", "ip_address">>}
TableRows == {<<>>, <<"u1", "u2">>}
ModifiedDays == {StartClock - 2, StartClock - 1, StartClock}
Tables == [exists : {TRUE}, modified : ModifiedDays, rows : TableRows,
           schema : TableSchemas]
NoTable == [exists |-> FALSE, modified |-> 0, rows |-> <<>>, schema |-> <<>>]

\* lines 91-96
TableName(dataset_id) == Project \o "." \o dataset_id \o ".user_info_combo"

\* pyarrow fs.FileSystem.from_uri, line 84: the path part of the URI.
FromUri(uri) ==
    CASE uri = "s3://bucket/users" -> "bucket/users"
      [] OTHER -> uri

\* The path as it would be if the dataset id were left out of the file name.
FilePathFixedName(folder, dataset_id) == folder \o "/user_info_combo.parquet"
\* lines 113-115
FilePath(folder, dataset_id) ==
    folder \o "/" \o "user_info_combo_" \o dataset_id \o ".parquet"

\* str() of a row count, line 133
Str(n) == <<"0", "1", "2", "3", "4", "5", "6", "7", "8", "9">>[n + 1]

\* The test of line 107 as it would be with >= for >.
IsNewerOrEqual(table, minimum) == table.modified >= minimum
\* The test of line 107.
IsNewer(table, minimum) == table.modified > minimum

\* What a file holds: the columns and rows written; a stream that was opened
\* and not written to its end leaves a truncated file.
NoRows == [total_rows |-> 0, data |-> <<>>, schema |-> <<>>]
NoArrow == [schema |-> <<>>, rows |-> <<>>]
Content(table) == [columns |-> table.schema, rows |-> table.rows, complete |-> TRUE]
Truncated == [columns |-> <<>>, rows |-> <<>>, complete |-> FALSE]
NoFiles == [p \in {} |-> Truncated]

\* Lines 117-119 as they would be with a stream that appends to the file
\* that is there.
WriteAppend(fs, path, table) ==
    [p \in DOMAIN fs \cup {path} |->
        IF p = path
        THEN IF path \in DOMAIN fs
             THEN [columns |-> table.schema, rows |-> fs[path].rows \o table.rows,
                   complete |-> TRUE]
             ELSE Content(table)
        ELSE fs[p]]
\* open_output_stream and write_table, lines 117-119: the file at path is
\* created or replaced.
Write(fs, path, table) ==
    [p \in DOMAIN fs \cup {path} |-> IF p = path THEN Content(table) ELSE fs[p]]
Truncate(fs, path) ==
    [p \in DOMAIN fs \cup {path} |-> IF p = path THEN Truncated ELSE fs[p]]

\* lines 121-136
AssetMaterialization(dataset_id, file_path, total_rows) ==
    [type |-> "AssetMaterialization", asset_key |-> dataset_id,
     updated_file |-> file_path, updated_rows |-> Str(total_rows),
     output_name |-> None, value |-> None]
\* line 138
Output(value, name) ==
    [type |-> "Output", asset_key |-> None, updated_file |-> None,
     updated_rows |-> None, output_name |-> name, value |-> value]

\* An exception a call of the loop body raised: at which dataset, in which
\* call, of which kind.
Raised(at, step, kind) == [at |-> at, step |-> step, kind |-> kind]
NoFailure == Raised(0, None, None)

NoPrevious == [ran |-> FALSE, files |-> NoFiles, events |-> <<>>,
               minimum |-> 0]

(***************************************************************************)
(* download_user_data.                                                     *)
(***************************************************************************)
\* download_user_data is not part of the run.
DownloadIdle ==
    /\ datasets = <<>> /\ warehouse = NoFiles /\ last_modified_days = 0
    /\ outputs_dir = None /\ clock = 0 /\ dpc = "idle" /\ modified_minimum = 0
    /\ output_folder = None /\ idx = 0 /\ bigquery_table = NoTable
    /\ desired_schema = <<>> /\ rows = NoRows /\ arrow_table = NoArrow
    /\ files = NoFiles /\ events = <<>> /\ lookups = <<>> /\ writes = <<>> /\ exceptions = <<>>
    /\ failure = NoFailure /\ run = 0 /\ previous = NoPrevious

\* The solid is about to run: an input list, a configuration, a warehouse that
\* holds or lacks the table of each dataset, and an empty output root.
DownloadInit ==
    /\ datasets \in DatasetLists
    /\ warehouse \in [{TableName(datasets[k]) : k \in 1..Len(datasets)} ->
                        Tables \cup {NoTable}]
    /\ last_modified_days \in LastModifiedDays
    /\ outputs_dir \in OutputsDirs
    /\ clock = StartClock
    /\ dpc = "start"
    /\ modified_minimum = 0
    /\ output_folder = None
    /\ idx = 0
    /\ bigquery_table = NoTable
    /\ desired_schema = <<>>
    /\ rows = NoRows
    /\ arrow_table = NoArrow
    /\ files = NoFiles
    /\ events = <<>>
    /\ lookups = <<>>
    /\ writes = <<>>
    /\ exceptions = <<>>
    /\ failure = NoFailure
    /\ run = 1
    /\ previous = NoPrevious

\* A file an earlier run of the pipeline left under the output root.
OldContent == [columns |-> <<"user_id">>, rows |-> <<"u0">>, complete |-> TRUE]
\* The output root before the run: empty, or holding an old file at the path
\* of every dataset of the project, those of the input list and others.
StoredFiles ==
    {NoFiles,
     [p \in {"bucket/users/user_info_combo_" \o DatasetIds[k] \o ".parquet" :
               k \in DOMAIN DatasetIds} |-> OldContent]}

\* The solid is about to run on an output root that earlier runs may have
\* written to; previous.files keeps the files as this run finds them.
DownloadInitStored ==
    /\ datasets \in DatasetLists
    /\ warehouse \in [{TableName(datasets[k]) : k \in 1..Len(datasets)} ->
                        Tables \cup {NoTable}]
    /\ last_modified_days \in LastModifiedDays
    /\ outputs_dir \in OutputsDirs
    /\ clock = StartClock
    /\ dpc = "start"
    /\ modified_minimum = 0
    /\ output_folder = None
    /\ idx = 0
    /\ bigquery_table = NoTable
    /\ desired_schema = <<>>
    /\ rows = NoRows
    /\ arrow_table = NoArrow
    /\ files \in StoredFiles
    /\ events = <<>>
    /\ lookups = <<>>
    /\ writes = <<>>
    /\ exceptions = <<>>
    /\ failure = NoFailure
    /\ run = 1
    /\ previous = [ran |-> FALSE, files |-> files, events |-> <<>>,
                   minimum |-> 0]

inputs == <<datasets, warehouse, last_modified_days, outputs_dir>>
locals == <<modified_minimum, output_folder, bigquery_table, desired_schema,
            rows, arrow_table>>

\* The for statement as it would be with line 138 indented into the loop.
AfterDatasetOutputInLoop(k) == "output"
\* Where the for statement of line 90 goes after the dataset at position k.
AfterDataset(k) == IF k < Len(datasets) THEN "get_table" ELSE "output"

\* lines 70-86: the boundary, the field list and the file system.
Start ==
    /\ dpc = "start"
    /\ modified_minimum' = clock - last_modified_days
    /\ output_folder' = FromUri(outputs_dir)
    /\ idx' = IF datasets = <<>> THEN 0 ELSE 1
    /\ dpc' = AfterDataset(0)
    /\ UNCHANGED <<inputs, clock, bigquery_table, desired_schema, rows,
                   arrow_table, files, events, lookups, writes, exceptions,
                   failure, run, previous>>
    /\ UNCHANGED <<fetchVars, tokenVars, selectVars>>

\* GetTable as it would be without the except clause of lines 100-101.
GetTableNotFoundFatal(outcome) ==
    /\ dpc = "get_table"
    /\ lookups' = Append(lookups, TableName(datasets[idx]))
    /\ IF outcome = "ok" /\ warehouse[TableName(datasets[idx])].exists
       THEN /\ bigquery_table' = warehouse[TableName(datasets[idx])]
            /\ dpc' = "check"
            /\ UNCHANGED <<idx, exceptions, failure>>
       ELSE LET kind == IF outcome = "ok" THEN "NotFound" ELSE outcome
            IN /\ exceptions' = Append(exceptions, Raised(idx, "get_table", kind))
               /\ failure' = Raised(idx, "get_table", kind)
               /\ dpc' = "failed"
               /\ UNCHANGED <<idx, bigquery_table>>
    /\ UNCHANGED <<inputs, clock, modified_minimum, output_folder,
                   desired_schema, rows, arrow_table, files, events, writes,
                   run, previous>>
    /\ UNCHANGED <<fetchVars, tokenVars, selectVars>>

\* lines 91-101: the table is looked up by name. get_table returns the table,
\* raises NotFound for a table the warehouse lacks, which goes on with the
\* next dataset, or raises another exception, which leaves the solid.
GetTable(outcome) ==
    /\ dpc = "get_table"
    /\ lookups' = Append(lookups, TableName(datasets[idx]))
    /\ IF outcome = "ok"
       THEN IF warehouse[TableName(datasets[idx])].exists
            THEN /\ bigquery_table' = warehouse[TableName(datasets[idx])]
                 /\ dpc' = "check"
                 /\ UNCHANGED <<idx, exceptions, failure>>
            ELSE /\ exceptions' = Append(exceptions,
                                         Raised(idx, "get_table", "NotFound"))
                 /\ dpc' = AfterDataset(idx)
                 /\ idx' = IF idx < Len(datasets) THEN idx + 1 ELSE idx
                 /\ UNCHANGED <<bigquery_table, failure>>
       ELSE /\ exceptions' = Append(exceptions, Raised(idx, "get_table", outcome))
            /\ failure' = Raised(idx, "get_table", outcome)
            /\ dpc' = "failed"
            /\ UNCHANGED <<idx, bigquery_table>>
    /\ UNCHANGED <<inputs, clock, modified_minimum, output_folder,
                   desired_schema, rows, arrow_table, files, events, writes,
                   run, previous>>
    /\ UNCHANGED <<fetchVars, tokenVars, selectVars>>

\* lines 103-107: the projection of the schema and the test of the table's
\* modified time.
CheckModified ==
    /\ dpc = "check"
    /\ desired_schema' = SelectSeq(bigquery_table.schema,
                                   LAMBDA column : column \in Range(fields))
    /\ IF IsNewer(bigquery_table, modified_minimum)
       THEN dpc' = "list_rows" /\ idx' = idx
       ELSE /\ dpc' = AfterDataset(idx)
            /\ idx' = IF idx < Len(datasets) THEN idx + 1 ELSE idx
    /\ UNCHANGED <<inputs, clock, modified_minimum, output_folder,
                   bigquery_table, rows, arrow_table, files, events, lookups,
                   writes, exceptions, failure, run, previous>>
    /\ UNCHANGED <<fetchVars, tokenVars, selectVars>>

\* ListRows as it would be if the try of line 98 covered list_rows too.
ListRowsNotFoundSkips(outcome) ==
    /\ dpc = "list_rows"
    /\ CASE outcome = "ok" ->
              /\ rows' = [total_rows |-> Len(bigquery_table.rows),
                          data |-> bigquery_table.rows,
                          schema |-> desired_schema]
              /\ dpc' = "to_arrow"
              /\ UNCHANGED <<idx, exceptions, failure>>
         [] outcome = "NotFound" ->
              /\ exceptions' = Append(exceptions, Raised(idx, "list_rows", outcome))
              /\ dpc' = AfterDataset(idx)
              /\ idx' = IF idx < Len(datasets) THEN idx + 1 ELSE idx
              /\ UNCHANGED <<rows, failure>>
         [] OTHER ->
              /\ exceptions' = Append(exceptions, Raised(idx, "list_rows", outcome))
              /\ failure' = Raised(idx, "list_rows", outcome)
              /\ dpc' = "failed"
              /\ UNCHANGED <<idx, rows>>
    /\ UNCHANGED <<inputs, clock, modified_minimum, output_folder,
                   bigquery_table, desired_schema, arrow_table, files, events,
                   lookups, writes, run, previous>>
    /\ UNCHANGED <<fetchVars, tokenVars, selectVars>>

\* lines 108-110: list_rows returns the row iterator or raises; no exception
\* is caught here.
ListRows(outcome) ==
    /\ dpc = "list_rows"
    /\ IF outcome = "ok"
       THEN /\ rows' = [total_rows |-> Len(bigquery_table.rows),
                        data |-> bigquery_table.rows,
                        schema |-> desired_schema]
            /\ dpc' = "to_arrow"
            /\ UNCHANGED <<exceptions, failure>>
       ELSE /\ exceptions' = Append(exceptions, Raised(idx, "list_rows", outcome))
            /\ failure' = Raised(idx, "list_rows", outcome)
            /\ dpc' = "failed"
            /\ rows' = rows
    /\ UNCHANGED <<inputs, clock, modified_minimum, output_folder, idx,
                   bigquery_table, desired_schema, arrow_table, files, events,
                   lookups, writes, run, previous>>
    /\ UNCHANGED <<fetchVars, tokenVars, selectVars>>

\* line 111: the rows are read into an arrow table, or reading them raises.
ToArrow(outcome) ==
    /\ dpc = "to_arrow"
    /\ IF outcome = "ok"
       THEN /\ arrow_table' = [schema |-> rows.schema, rows |-> rows.data]
            /\ dpc' = "write"
            /\ UNCHANGED <<exceptions, failure>>
       ELSE /\ exceptions' = Append(exceptions, Raised(idx, "to_arrow", outcome))
            /\ failure' = Raised(idx, "to_arrow", outcome)
            /\ dpc' = "failed"
            /\ arrow_table' = arrow_table
    /\ UNCHANGED <<inputs, clock, modified_minimum, output_folder, idx,
                   bigquery_table, desired_schema, rows, files, events, lookups,
                   writes, run, previous>>
    /\ UNCHANGED <<fetchVars, tokenVars, selectVars>>

\* lines 113-119: the file is opened for output and the table written. Opening
\* can raise, which leaves the store as it is; writing can raise after the
\* stream was opened, which leaves the file as it was or truncated.
WriteFile(outcome) ==
    /\ dpc = "write"
    /\ LET file_path == FilePath(output_folder, datasets[idx])
       IN CASE outcome = "ok" ->
                 /\ files' = Write(files, file_path, arrow_table)
                 /\ writes' = Append(writes, file_path)
                 /\ dpc' = "emit"
                 /\ UNCHANGED <<exceptions, failure>>
            [] outcome = "open:OSError" ->
                 /\ files' = files
                 /\ writes' = writes
                 /\ exceptions' = Append(exceptions, Raised(idx, "write", outcome))
                 /\ failure' = Raised(idx, "write", outcome)
                 /\ dpc' = "failed"
            [] OTHER ->
                 /\ files' \in {files, Truncate(files, file_path)}
                 /\ writes' = Append(writes, file_path)
                 /\ exceptions' = Append(exceptions, Raised(idx, "write", outcome))
                 /\ failure' = Raised(idx, "write", outcome)
                 /\ dpc' = "failed"
    /\ UNCHANGED <<inputs, clock, modified_minimum, output_folder, idx,
                   bigquery_table, desired_schema, rows, arrow_table, events,
                   lookups, run, previous>>
    /\ UNCHANGED <<fetchVars, tokenVars, selectVars>>

\* lines 121-136: the materialization of the file just written is yielded, and
\* the loop goes on.
EmitMaterialization ==
    /\ dpc = "emit"
    /\ events' = Append(events,
                   AssetMaterialization(datasets[idx],
                                        FilePath(output_folder, datasets[idx]),
                                        rows.total_rows))
    /\ dpc' = AfterDataset(idx)
    /\ idx' = IF idx < Len(datasets) THEN idx + 1 ELSE idx
    /\ UNCHANGED <<inputs, clock, locals, files, lookups, writes, exceptions,
                   failure, run, previous>>
    /\ UNCHANGED <<fetchVars, tokenVars, selectVars>>

\* line 138: the output folder is yielded and the solid returns.
EmitOutput ==
    /\ dpc = "output"
    /\ events' = Append(events, Output(output_folder, "user_query_folder"))
    /\ dpc' = "done"
    /\ UNCHANGED <<inputs, clock, locals, idx, files, lookups, writes,
                   exceptions, failure, run, previous>>
    /\ UNCHANGED <<fetchVars, tokenVars, selectVars>>

\* After a run that completed, the orchestrator runs the solid again with the
\* same input, configuration and warehouse, on the output root as that run
\* left it; the clock has not moved or has moved on by a day.
Rerun(tick) ==
    /\ dpc = "done"
    /\ run < MaxRuns
    /\ run' = run + 1
    /\ previous' = [ran |-> TRUE, files |-> files, events |-> events,
                    minimum |-> modified_minimum]
    /\ clock' = clock + tick
    /\ dpc' = "start"
    /\ modified_minimum' = 0
    /\ output_folder' = None
    /\ idx' = 0
    /\ bigquery_table' = NoTable
    /\ desired_schema' = <<>>
    /\ rows' = NoRows
    /\ arrow_table' = NoArrow
    /\ events' = <<>>
    /\ lookups' = <<>>
    /\ writes' = <<>>
    /\ exceptions' = <<>>
    /\ failure' = NoFailure
    /\ UNCHANGED <<inputs, files>>
    /\ UNCHANGED <<fetchVars, tokenVars, selectVars>>

NextDownload ==
    \/ Start
    \/ \E outcome \in {"ok", "Forbidden"} : GetTable(outcome)
    \/ CheckModified
    \/ \E outcome \in {"ok", "NotFound", "InternalServerError"} : ListRows(outcome)
    \/ \E outcome \in {"ok", "ServerError"} : ToArrow(outcome)
    \/ \E outcome \in {"ok", "open:OSError", "write:OSError"} : WriteFile(outcome)
    \/ EmitMaterialization
    \/ EmitOutput
    \/ \E tick \in {0, 1} : Rerun(tick)

(***************************************************************************)
(* get_datasets.                                                           *)
(***************************************************************************)
\* list_datasets enumerates at most MaxListing datasets.
MaxListing == 3
\* The dataset ids of the project; an id names one dataset.
ListedIds == {"a_latest", "b_latest", "a_latest_v1", "latest"}
Listings == {l \in UNION {[1..n -> ListedIds] : n \in 0..MaxListing} :
                \A j \in 1..Len(l), k \in 1..Len(l) : l[j] = l[k] => j = k}

\* `"_latest" in dataset_id`: the suffix anywhere in the id.
Contains(s, sub) ==
    \E k \in 1..(Len(s) - Len(sub) + 1) : SubSeq(s, k, k + Len(sub) - 1) = sub
\* str.endswith, line 162
EndsWith(s, suffix) ==
    /\ Len(s) >= Len(suffix)
    /\ SubSeq(s, Len(s) - Len(suffix) + 1, Len(s)) = suffix

\* get_datasets is not part of the run.
DatasetsIdle ==
    /\ listing = <<>> /\ spc = "off" /\ position = 0 /\ selected = <<>>
    /\ returned = <<>> /\ sfailure = None

\* The solid is about to run on a project whose datasets list_datasets
\* enumerates in some order.
DatasetsInit ==
    /\ listing \in Listings
    /\ spc = "list_datasets"
    /\ position = 0
    /\ selected = <<>>
    /\ returned = <<>>
    /\ sfailure = None

\* line 160: list_datasets returns the iterator of the datasets, or raises.
ListDatasets(outcome) ==
    /\ spc = "list_datasets"
    /\ IF outcome = "ok"
       THEN spc' = "filter" /\ position' = 1 /\ sfailure' = sfailure
       ELSE spc' = "failed" /\ position' = position /\ sfailure' = outcome
    /\ UNCHANGED <<listing, selected, returned>>
    /\ UNCHANGED <<fetchVars, tokenVars, downloadVars>>

\* lines 161-163: list() draws the next dataset from filter(): the iterator
\* hands over the next dataset of the listing, kept if its id ends with
\* "_latest", or raises while fetching a page of the listing.
FilterDataset(outcome) ==
    /\ spc = "filter"
    /\ position <= Len(listing)
    /\ IF outcome = "ok"
       THEN /\ selected' = IF EndsWith(listing[position], "_latest")
                           THEN Append(selected, listing[position])
                           ELSE selected
            /\ position' = position + 1
            /\ UNCHANGED <<spc, sfailure>>
       ELSE /\ spc' = "failed"
            /\ sfailure' = outcome
            /\ UNCHANGED <<position, selected>>
    /\ UNCHANGED <<listing, returned>>
    /\ UNCHANGED <<fetchVars, tokenVars, downloadVars>>

\* lines 161-163: the iterator is exhausted; the list is returned.
ReturnDatasets ==
    /\ spc = "filter"
    /\ position > Len(listing)
    /\ returned' = selected
    /\ spc' = "done"
    /\ UNCHANGED <<listing, position, selected, sfailure>>
    /\ UNCHANGED <<fetchVars, tokenVars, downloadVars>>

NextDatasets ==
    \/ \E outcome \in {"ok", "Forbidden"} : ListDatasets(outcome)
    \/ \E outcome \in {"ok", "ServiceUnavailable"} : FilterDataset(outcome)
    \/ ReturnDatasets

(***************************************************************************)
(* Specifications.                                                         *)
(***************************************************************************)
InitFetch == FetchInit /\ TokenIdle /\ DownloadIdle /\ DatasetsIdle
SpecFetch == InitFetch /\ [][NextFetch]_vars

\* The consumer iterates on (a for loop over the generator) and every request
\* sent is answered.
SpecFetchSame == InitFetch /\ [][NextFetchSame]_vars /\ WF_vars(NextFetchSame)

InitToken == TokenInit /\ FetchIdle /\ DownloadIdle /\ DatasetsIdle
SpecToken == InitToken /\ [][NextToken]_vars

InitDownload == DownloadInit /\ FetchIdle /\ TokenIdle /\ DatasetsIdle
SpecDownload == InitDownload /\ [][NextDownload]_vars

InitDownloadStored == DownloadInitStored /\ FetchIdle /\ TokenIdle /\ DatasetsIdle
SpecDownloadStored == InitDownloadStored /\ [][NextDownload]_vars

InitDatasets == DatasetsInit /\ FetchIdle /\ TokenIdle /\ DownloadIdle
SpecDatasets == InitDatasets /\ [][NextDatasets]_vars

\* Any one of the programs.
Init == InitFetch \/ InitToken \/ InitDownload \/ InitDatasets
Next == NextFetch \/ NextToken \/ NextDownload \/ NextDatasets
Spec == Init /\ [][Next]_vars

(***************************************************************************)
(* Properties of get_edx_course_ids.                                       *)
(***************************************************************************)
\* A pagination.next that ends the sequence: absent, null or empty.
Falsy(v) == v \in {None, ""}
\* The requests that were answered with a status raise_for_status raises for.
FailedIdx == {k \in 1..Len(answers) : RaisesForStatus(answers[k].status)}
\* Once the generator has raised, nothing is sent or yielded any more.
QuietAfterRaise ==
    pc = "raised" =>
        /\ pc' = "raised"
        /\ requests' = requests
        /\ answers' = answers
        /\ yielded' = yielded
        /\ error' = error

\* C1: the generator yields the results of each list response, in the order
\* received, and stops at the first page whose pagination.next is absent or
\* falsy: every page before the last received has a truthy cursor; after a page
\* with a falsy cursor the generator is suspended or done, as many list
\* requests were sent as pages received and nothing is in flight; and a
\* generator that is done has yielded exactly the pages up to that page.
C1_StopsAtFirstFalsyCursor ==
    /\ Len(yielded) = Len(pages)
    /\ \A k \in 1..Len(pages) : yielded[k] = pages[k].results
    /\ \A k \in 1..(Len(pages) - 1) : ~Falsy(pages[k].next)
    /\ (pages # <<>> /\ Falsy(Last(pages).next)) =>
          /\ pc \in {"yield78", "yield82", "done"}
          /\ Cardinality(ListIdx) = Len(pages)
          /\ IsList(Last(requests))
          /\ inflight = {}
    /\ pc = "done" =>
          /\ pages # <<>>
          /\ Falsy(Last(pages).next)
          /\ next_page = Last(pages).next

\* Three pages were consumed, the third with an empty cursor, and the
\* generator is exhausted.
C1_Witness ==
    /\ pc = "done"
    /\ Len(yielded) = 3
    /\ pages[1].next = "X"
    /\ pages[3].next = ""
    /\ Cardinality(ListIdx) = 3

\* C5 as stated: every list request equals the first list request.
C5_AllListRequestsIdentical ==
    \A j \in ListIdx, k \in ListIdx : requests[j] = requests[k]

\* C5 as amended: every list request has the URL and headers of the first, and
\* its username parameter is the username the identity lookup sent just before
\* it returned; the cursor of the previous page is no part of the request, so
\* two list requests are equal whenever their lookups returned the same name.
C5_ListRequestIgnoresCursor ==
    /\ \A k \in ListIdx :
          /\ k > 1
          /\ IsIdentity(requests[k - 1])
          /\ requests[k].method = "GET"
          /\ requests[k].url = edx_url \o "/api/courses/v1/courses/"
          /\ requests[k].headers = {<<"Authorization", "JWT " \o access_token>>}
          /\ requests[k].params = {<<"username", answers[k - 1].username>>}
    /\ \A j \in ListIdx, k \in ListIdx :
          answers[j - 1].username = answers[k - 1].username
             => requests[j] = requests[k]

\* Three list requests were sent, the second and third after pages with
\* different cursors, and the three are equal.
C5_Witness ==
    /\ Cardinality(ListIdx) = 3
    /\ Len(pages) >= 2
    /\ pages[1].next = "X"
    /\ pages[2].next = "Y"
    /\ requests[2] = requests[4]
    /\ requests[4] = requests[6]

\* C6 as stated: a session makes one identity lookup, however many list
\* requests it sends.
C6_OneIdentityLookup ==
    requests # <<>> => Cardinality(IdentityIdx) = 1

\* C6 as amended: every list request is preceded by its own identity lookup:
\* the requests alternate, identity lookup then list request, starting with an
\* identity lookup, so a session that sent k list requests made k lookups (and
\* one more when the last lookup has no list request yet).
C6_LookupBeforeEveryListRequest ==
    /\ \A k \in 1..Len(requests) :
          IF k % 2 = 1 THEN IsIdentity(requests[k]) ELSE IsList(requests[k])
    /\ Cardinality(IdentityIdx) \in {Cardinality(ListIdx), Cardinality(ListIdx) + 1}

\* Three pages were fetched with three identity lookups.
C6_Witness ==
    /\ Cardinality(ListIdx) = 3
    /\ Cardinality(IdentityIdx) = 3
    /\ Len(yielded) = 3

\* C7: a list request answered with a failure status ends the generator at
\* that page: the generator has raised with that status, the failed request is
\* the last request ever sent (no retry, no later page), the elements yielded
\* are those of the list requests before it, and nothing is sent or yielded
\* afterwards.
C7_ListFailureAborts ==
    /\ [](\A k \in FailedIdx \cap ListIdx :
             /\ pc = "raised"
             /\ error = [status |-> answers[k].status, request |-> k]
             /\ k = Len(requests)
             /\ inflight = {}
             /\ Len(yielded) = Cardinality(ListIdx) - 1
             /\ Len(pages) = Cardinality(ListIdx) - 1)
    /\ [][QuietAfterRaise]_vars

\* The list request of the third page failed, after two elements were yielded,
\* and the consumer has asked again.
C7_Witness ==
    /\ pc = "raised"
    /\ Cardinality(ListIdx) = 3
    /\ IsList(requests[error.request])
    /\ error.status = 500
    /\ Len(yielded) = 2
    /\ asked = 4

\* C8 as stated: a failed identity lookup fails the fetch before any list
\* request is sent and before any element is yielded.
C8_IdentityFailureBeforeAnyList ==
    \A k \in FailedIdx \cap IdentityIdx :
        /\ pc = "raised"
        /\ ListIdx = {}
        /\ yielded = <<>>

\* C8 as amended: an identity lookup answered with a failure status fails the
\* fetch with that error; it is the last request ever sent (the lookup is not
\* retried and the list request it was made for is never sent), and no further
\* element is yielded. When it is the first lookup, no list request was sent
\* and nothing was yielded; a later lookup fails after the list requests and
\* elements of the pages before it.
C8_IdentityFailureAborts ==
    /\ [](\A k \in FailedIdx \cap IdentityIdx :
             /\ pc = "raised"
             /\ error = [status |-> answers[k].status, request |-> k]
             /\ k = Len(requests)
             /\ inflight = {}
             /\ Cardinality(ListIdx) = (k - 1) \div 2
             /\ Len(yielded) = (k - 1) \div 2
             /\ (k = 1 => ListIdx = {} /\ yielded = <<>>))
    /\ [][QuietAfterRaise]_vars

\* The identity lookup made for the second page failed, after one list request
\* and one element.
C8_Witness ==
    /\ pc = "raised"
    /\ error.request = 3
    /\ IsIdentity(requests[3])
    /\ error.status = 401
    /\ Len(yielded) = 1
    /\ asked = 3

\* C14: the generator is lazy and one-shot. Nothing is sent before the first
\* next(); a request is sent only while a next() of the consumer is unanswered
\* (one more element was asked for than was handed over), so list requests
\* never outnumber the next() calls; at most one request is in flight, and
\* none while the generator is suspended or finished; and a next() on a
\* generator that is exhausted or has raised changes nothing but the count of
\* calls: no request, no element, no change of state.
C14_LazyOneShot ==
    /\ [](/\ asked = 0 => pc = "created"
          /\ pc = "created" => requests = <<>> /\ yielded = <<>> /\ asked = 0
          /\ Cardinality(ListIdx) <= asked
          /\ Cardinality(IdentityIdx) <= asked
          /\ Len(yielded) <= asked
          /\ Cardinality(inflight) <= 1
          /\ pc \in {"created", "yield78", "yield82", "done", "raised"} =>
                inflight = {}
          /\ pc \in {"yield78", "yield82"} => Len(yielded) = asked)
    /\ [][/\ requests' # requests =>
               /\ asked' = asked
               /\ Len(yielded) + 1 = asked
               /\ inflight = {}
               /\ Len(requests') = Len(requests) + 1
          /\ pc \in {"done", "raised"} =>
               /\ pc' = pc
               /\ requests' = requests
               /\ inflight' = inflight
               /\ answers' = answers
               /\ yielded' = yielded
               /\ pages' = pages
               /\ error' = error]_vars

\* The generator was exhausted by the third next(), after two pages, and the
\* consumer asked once more: two list requests, two elements, four calls.
C14_Witness ==
    /\ pc = "done"
    /\ asked = 4
    /\ Len(yielded) = 2
    /\ Cardinality(ListIdx) = 2
    /\ inflight = {}

C9_OnePostPerCall ==
    /\ Len(posts) = Len(calls) + (IF tpc = "wait_post" THEN 1 ELSE 0)
    /\ tinflight = (IF tpc = "wait_post" THEN {Len(posts)} ELSE {})
    /\ \A c \in 1..Len(calls) :
          /\ calls[c].post = c
          /\ posts[c] = TokenRequest(calls[c].args[1], calls[c].args[2],
                                     calls[c].args[3], calls[c].args[4])
          /\ calls[c].status \in 400..599 =>
                calls[c].raised /\ calls[c].returned = None
          /\ calls[c].status \in 200..299 =>
                ~calls[c].raised /\ calls[c].returned = calls[c].body.access_token

\* Two calls with the same arguments: the first was answered 500 and raised,
\* the second was answered 200 and returned the token; each sent its own POST.
C9_Witness ==
    /\ Len(calls) = 2
    /\ calls[1].args = calls[2].args
    /\ calls[1].status = 500 /\ calls[1].raised
    /\ calls[2].status = 200 /\ calls[2].returned = "tokB"
    /\ Len(posts) = 2

(***************************************************************************)
(* Properties of download_user_data.                                       *)
(***************************************************************************)
\* The positions of the datasets the loop has finished with in this run.
Processed ==
    CASE dpc \in {"idle", "start"} -> {}
      [] dpc \in {"output", "done"} -> 1..Len(datasets)
      [] OTHER -> 1..(idx - 1)
\* The table of the dataset at position k, and whether it exists with a
\* modified time strictly newer than now - last_modified_days.
TableAt(k) == warehouse[Project \o "." \o datasets[k] \o ".user_info_combo"]
NewerThan(k, minimum) == TableAt(k).exists /\ TableAt(k).modified > minimum
Fresh(k) == NewerThan(k, clock - last_modified_days)
\* output_root/user_info_combo_<dataset_id>.parquet
ExpectedPath(k) == "bucket/users/user_info_combo_" \o datasets[k] \o ".parquet"
IsRecord(e) == e.type = "AssetMaterialization"
RecordsOf(k) == {e \in 1..Len(events) :
                    IsRecord(events[e]) /\ events[e].asset_key = datasets[k]}
WritesOf(k) == {w \in 1..Len(writes) : writes[w] = ExpectedPath(k)}
\* The file of the dataset at position k is as the run found it.
Untouched(k) ==
    /\ WritesOf(k) = {}
    /\ ExpectedPath(k) \in DOMAIN files <=> ExpectedPath(k) \in DOMAIN previous.files
    /\ ExpectedPath(k) \in DOMAIN files =>
          files[ExpectedPath(k)] = previous.files[ExpectedPath(k)]
\* The file of the dataset at position k was written once in this run, with
\* the rows of its table, and one record tells its id, path and row count.
WrittenAndRecorded(k) ==
    /\ Cardinality(WritesOf(k)) = 1
    /\ ExpectedPath(k) \in DOMAIN files
    /\ files[ExpectedPath(k)].complete
    /\ files[ExpectedPath(k)].rows = TableAt(k).rows
    /\ Cardinality(RecordsOf(k)) = 1
    /\ \A e \in RecordsOf(k) :
          /\ events[e].updated_file = ExpectedPath(k)
          /\ events[e].updated_rows =
                (CASE Len(TableAt(k).rows) = 0 -> "0"
                   [] Len(TableAt(k).rows) = 1 -> "1"
                   [] Len(TableAt(k).rows) = 2 -> "2")

\* C2: for every dataset the loop has finished with (all of them once the run
\* is done): if its table exists and is strictly newer than the boundary, its
\* file was written once at output_root/user_info_combo_<id>.parquet and
\* exactly one record carries its id, that path and the row count; otherwise
\* (no table, or a table as old as the boundary or older) no file was written
\* and no record emitted.
C2_WrittenIffNewer ==
    /\ \A k \in Processed :
          IF Fresh(k)
          THEN WrittenAndRecorded(k)
          ELSE RecordsOf(k) = {} /\ Untouched(k)
    /\ \A k \in (1..Len(datasets)) \ Processed : RecordsOf(k) = {}
    /\ dpc = "done" => Processed = 1..Len(datasets)

\* A run is done with three datasets and a boundary one day back: the first
\* table was modified exactly at the boundary and was skipped, the second is
\* older and was skipped, the third is newer and was written and recorded.
C2_Witness ==
    /\ dpc = "done"
    /\ run = 1
    /\ Len(datasets) = 3
    /\ last_modified_days = 1
    /\ TableAt(1).exists /\ TableAt(1).modified = clock - 1
    /\ TableAt(2).exists /\ TableAt(2).modified = clock - 2
    /\ TableAt(3).exists /\ TableAt(3).modified = clock
    /\ Len(TableAt(3).rows) = 2
    /\ DOMAIN files = {"bucket/users/user_info_combo_c_latest.parquet"}
    /\ Len(events) = 2
    /\ events[1].asset_key = "c_latest"
    /\ events[1].updated_rows = "2"

\* The exceptions of this run that are a NotFound of the table lookup.
IsLookupNotFound(x) == x.step = "get_table" /\ x.kind = "NotFound"

\* C3: a dataset whose table lookup raises not-found is skipped silently: the
\* exception never ends the run, no file is written and no record emitted for
\* it, and the step that meets it goes on with the next dataset (or with the
\* terminal output after the last); a run that is done has looked up every
\* dataset of the list, recorded every other dataset that exists and is newer
\* than the boundary, emitted the output last, and raised nothing.
C3_NotFoundIsSkipped ==
    /\ [](/\ \A x \in 1..Len(exceptions) :
                IsLookupNotFound(exceptions[x]) =>
                   /\ failure # exceptions[x]
                   /\ exceptions[x].at \in Processed
                   /\ ~TableAt(exceptions[x].at).exists
                   /\ RecordsOf(exceptions[x].at) = {}
                   /\ WritesOf(exceptions[x].at) = {}
          /\ dpc = "done" =>
                /\ failure = NoFailure
                /\ lookups = [k \in 1..Len(datasets) |->
                                Project \o "." \o datasets[k] \o ".user_info_combo"]
                /\ \A k \in 1..Len(datasets) :
                      Fresh(k) => Cardinality(RecordsOf(k)) = 1
                /\ Last(events) = Output("bucket/users", "user_query_folder"))
    /\ [][(dpc = "get_table" /\ ~TableAt(idx).exists /\ failure' = NoFailure) =>
             /\ dpc' = (IF idx < Len(datasets) THEN "get_table" ELSE "output")
             /\ idx' = (IF idx < Len(datasets) THEN idx + 1 ELSE idx)
             /\ events' = events
             /\ files' = files]_vars

\* A run is done with three datasets, all newer than the boundary where they
\* exist: the second has no table; the first and the third were recorded.
C3_Witness ==
    /\ dpc = "done"
    /\ Len(datasets) = 3
    /\ Fresh(1) /\ ~TableAt(2).exists /\ Fresh(3)
    /\ exceptions = <<Raised(2, "get_table", "NotFound")>>
    /\ Len(events) = 3
    /\ events[1].asset_key = "a_latest"
    /\ events[2].asset_key = "c_latest"
    /\ events[3].type = "Output"

\* C4: an exception other than a not-found of the table lookup, raised at the
\* k-th dataset, ends the run: it is the exception that leaves the solid,
\* unchanged, and the last one raised; the lookups of the run are those of the
\* datasets 1..k and no file of a later dataset was opened; there is no record
\* of the k-th dataset and no terminal output; the datasets before the k-th
\* keep the files and records they got; and nothing changes afterwards.
C4_OtherFailureIsFatal ==
    /\ [](/\ \A x \in 1..Len(exceptions) :
                ~IsLookupNotFound(exceptions[x]) =>
                   /\ dpc = "failed"
                   /\ failure = exceptions[x]
                   /\ x = Len(exceptions)
                   /\ idx = exceptions[x].at
          /\ dpc = "failed" =>
                /\ failure # NoFailure
                /\ ~IsLookupNotFound(failure)
                /\ failure = Last(exceptions)
                /\ Len(lookups) = idx
                /\ \A k \in (idx + 1)..Len(datasets) : WritesOf(k) = {}
                /\ \A k \in idx..Len(datasets) : RecordsOf(k) = {}
                /\ \A e \in 1..Len(events) : IsRecord(events[e])
                /\ \A k \in 1..(idx - 1) :
                      IF Fresh(k) THEN WrittenAndRecorded(k)
                      ELSE RecordsOf(k) = {} /\ Untouched(k))
    /\ [][dpc = "failed" => UNCHANGED <<files, events, lookups, writes, dpc,
                                        failure>>]_vars

\* list_rows raised NotFound at the second of three datasets, after the first
\* was written and recorded: the run has failed, the first file is in place,
\* and the third dataset was never looked up.
C4_Witness ==
    /\ dpc = "failed"
    /\ Len(datasets) = 3
    /\ failure = Raised(2, "list_rows", "NotFound")
    /\ Fresh(1)
    /\ Len(events) = 1
    /\ DOMAIN files = {"bucket/users/user_info_combo_a_latest.parquet"}
    /\ Len(lookups) = 2

\* C10 as stated: a second run on the same warehouse, configuration and list
\* ends with the files of the first run and has emitted the same events.
C10_SameFilesAndRecords ==
    (previous.ran /\ dpc = "done") =>
        /\ files = previous.files
        /\ events = previous.events

\* C10 as amended: a second run on the same warehouse, configuration and list
\* leaves the output root with the same files and the same content as the
\* first (each file is replaced, never appended to, none is duplicated); it
\* emits the records of the first run for the tables that are still newer
\* than its own boundary, in the same order, then the output: the same events
\* as the first run whenever the same tables are newer than both boundaries.
C10_RerunKeepsFiles ==
    (previous.ran /\ dpc # "failed") =>
        /\ files = previous.files
        /\ dpc = "done" =>
              /\ events = SelectSeq(previous.events,
                    LAMBDA e : \/ ~IsRecord(e)
                               \/ \E k \in 1..Len(datasets) :
                                     e.asset_key = datasets[k] /\ Fresh(k))
              /\ (\A k \in 1..Len(datasets) :
                      Fresh(k) <=> NewerThan(k, previous.minimum))
                    => events = previous.events

\* A second run is done: it wrote again the two files the first run wrote,
\* with two rows each, and emitted the events of the first run.
C10_Witness ==
    /\ run = 2
    /\ dpc = "done"
    /\ Len(writes) = 2
    /\ Len(events) = 3
    /\ events = previous.events
    /\ Cardinality(DOMAIN files) = 2
    /\ \A p \in DOMAIN files : Len(files[p].rows) = 2

\* The positions in events of the records and of the terminal output.
RecordIdx == {e \in 1..Len(events) : IsRecord(events[e])}
OutputIdx == {e \in 1..Len(events) : events[e].type = "Output"}
\* The position in the input list of the dataset a record is about.
PositionOf(e) == CHOOSE k \in 1..Len(datasets) : datasets[k] = e.asset_key

\* C12: the record of a dataset is emitted after that dataset's file was
\* written and before the next table is looked up: whenever a table is about
\* to be looked up, and at the end, every file written in this run has its
\* record, and the step that emits a record emits the one of the file written
\* last, for the dataset looked up last; records follow the order of the input
\* list; the terminal output is emitted once, last, after every dataset was
\* looked up; a completed run has as many records as files written.
C12_EventOrder ==
    /\ [](/\ \A e \in RecordIdx :
                /\ \E k \in 1..Len(datasets) : datasets[k] = events[e].asset_key
                /\ PositionOf(events[e]) <= Len(lookups)
                /\ WritesOf(PositionOf(events[e])) # {}
                /\ files[events[e].updated_file].complete
          /\ \A d \in RecordIdx, e \in RecordIdx :
                d < e => PositionOf(events[d]) < PositionOf(events[e])
          /\ dpc \in {"get_table", "output", "done"} =>
                Cardinality(RecordIdx) = Len(writes)
          /\ dpc = "emit" => Cardinality(RecordIdx) + 1 = Len(writes)
          /\ Cardinality(OutputIdx) = (IF dpc = "done" THEN 1 ELSE 0)
          /\ dpc = "done" =>
                /\ OutputIdx = {Len(events)}
                /\ Last(events).value = "bucket/users"
                /\ Len(lookups) = Len(datasets)
                /\ Cardinality(RecordIdx) = Len(writes)
                /\ Cardinality(RecordIdx) = Len(events) - 1)
    /\ [][(events' # events /\ run' = run) =>
             /\ Len(events') = Len(events) + 1
             /\ SubSeq(events', 1, Len(events)) = events
             /\ lookups' = lookups /\ writes' = writes /\ files' = files
             /\ IF IsRecord(Last(events'))
                THEN /\ dpc = "emit"
                     /\ Last(events').asset_key = datasets[Len(lookups)]
                     /\ Last(events').updated_file = Last(writes)
                ELSE /\ dpc = "output" /\ dpc' = "done"
                     /\ Len(lookups) = Len(datasets)]_vars

\* A run is done with three datasets, all written: three records in the order
\* of the list, then the output.
C12_Witness ==
    /\ dpc = "done"
    /\ Len(datasets) = 3
    /\ Len(writes) = 3
    /\ Len(events) = 4
    /\ events[1].asset_key = "a_latest"
    /\ events[2].asset_key = "b_latest"
    /\ events[3].asset_key = "c_latest"
    /\ events[4].type = "Output"

\* Two file systems agree at a path: no file in either, or the same file.
SameAt(fs, gs, p) ==
    /\ p \in DOMAIN fs <=> p \in DOMAIN gs
    /\ p \in DOMAIN fs => fs[p] = gs[p]
\* The paths at which the store differs from what this run found.
ChangedPaths ==
    {p \in DOMAIN files \cup DOMAIN previous.files : ~SameAt(files, previous.files, p)}

\* C15: a run changes files only at the paths user_info_combo_<id>.parquet of
\* the datasets it wrote, which are datasets of the input list whose table
\* exists and is newer than the boundary: the file of a skipped dataset, and
\* every file of a dataset not in the list, is as the run found it; one step
\* changes at most the file of the dataset the loop is at, and only when that
\* dataset is not skipped; and the paths written in one run are pairwise
\* distinct, one per dataset, in the order of the list.
C15_OnlyOwnFile ==
    /\ [](/\ \A p \in ChangedPaths :
                \E k \in 1..Len(lookups) :
                    /\ p = ExpectedPath(k)
                    /\ Fresh(k)
                    /\ WritesOf(k) # {}
          /\ \A k \in 1..Len(datasets) :
                ~Fresh(k) => /\ WritesOf(k) = {}
                             /\ SameAt(files, previous.files, ExpectedPath(k))
          /\ \A v \in 1..Len(writes), w \in 1..Len(writes) :
                writes[v] = writes[w] => v = w
          /\ \A w \in 1..Len(writes) :
                \E k \in 1..Len(datasets) :
                    /\ writes[w] = ExpectedPath(k)
                    /\ \A v \in 1..(w - 1) :
                          \E j \in 1..(k - 1) : writes[v] = ExpectedPath(j))
    /\ [][files' # files =>
             /\ dpc = "write"
             /\ Fresh(idx)
             /\ \A p \in DOMAIN files \cup DOMAIN files' :
                   p # ExpectedPath(idx) => SameAt(files, files', p)]_vars

\* The root held an old file for every dataset. Of three datasets the first
\* has no table and the second a table as old as the boundary: their old files
\* are still there; the third was written over, and the file of a dataset that
\* is not in the list is as it was.
C15_Witness ==
    /\ dpc = "done"
    /\ run = 1
    /\ Len(datasets) = 3
    /\ ~TableAt(1).exists
    /\ TableAt(2).exists /\ ~Fresh(2)
    /\ Fresh(3)
    /\ previous.files # NoFiles
    /\ files[ExpectedPath(1)] = OldContent
    /\ files[ExpectedPath(2)] = OldContent
    /\ files[ExpectedPath(3)] # OldContent
    /\ files["bucket/users/user_info_combo_d_latest.parquet"] = OldContent
    /\ writes = <<ExpectedPath(3)>>

(***************************************************************************)
(* Properties of get_datasets.                                             *)
(***************************************************************************)
\* The ids of ListedIds that end with "_latest".
LatestIds == {"a_latest", "b_latest"}
IsLatest(dataset_id) == dataset_id \in LatestIds

\* C11: a call that returned has returned exactly the datasets of the listing
\* whose id ends with "_latest", each once, in the order of the listing, and
\* no other dataset; a call whose listing failed has raised that failure and
\* returned nothing.
C11_LatestInListingOrder ==
    /\ spc = "done" =>
          /\ returned = SelectSeq(listing, IsLatest)
          /\ \A j \in 1..Len(returned), k \in 1..Len(returned) :
                returned[j] = returned[k] => j = k
          /\ sfailure = None
    /\ spc = "filter" =>
          selected = SelectSeq(SubSeq(listing, 1, position - 1), IsLatest)
    /\ spc = "failed" => sfailure # None /\ returned = <<>>
    /\ spc # "done" => returned = <<>>
    /\ sfailure # None => spc = "failed"

\* The listing holds, in this order, an id with the suffix inside it, then
\* two ids that end with it in reverse alphabetical order: the call returned
\* the last two in the order of the listing.
C11_Witness ==
    /\ spc = "done"
    /\ listing = <<"a_latest_v1", "b_latest", "a_latest">>
    /\ returned = <<"b_latest", "a_latest">>

====
